---- MODULE Spec2Model ----
(***************************************************************************)
(* AirTunnelInterface (src/src/UI/interface.py): a Tk window that loads an *)
(* STL mesh, compiles it into an OpenGL display list and redraws it.       *)
(*                                                                         *)
(* The object is modelled after construction.  Its methods are the         *)
(* operations; all of them run on the one Tk thread, so a method starts    *)
(* only when no other method is executing (pc = "idle").  load_model is    *)
(* followed statement by statement, so that the states in which a parse or *)
(* a display-list compilation is in progress are states of the model.      *)
(* Attribute reads follow Python: reading an attribute that no statement   *)
(* has assigned raises AttributeError.  Toolkit and GL calls are assumed   *)
(* to return normally.                                                     *)
(***************************************************************************)
EXTENDS Integers, Sequences, FiniteSets, TLC

VARIABLES
    attrs,       \* names of the instance attributes that have been assigned
    model,       \* self.model: the mesh's vectors, a sequence of facets
    model_list,  \* self.model_list: a display-list name
    glLists,     \* GL display lists, by name 1..Len: [done, cmds]
    viewport,    \* GL viewport <<x, y, width, height>>
    rendered,    \* vertices drawn into the back buffer by the last draw
    after,       \* update callbacks pending in Tk's timer queue
    mainloop,    \* root.mainloop() has been entered
    pc,          \* position of the Tk thread
    src,         \* content of the file at file_path read by the last load
    cur,         \* create_model_list's local model_list
    ci,          \* create_model_list: index of the facet being emitted
    cj,          \* create_model_list: index of the vertex being emitted
    lastOp,      \* the method called last
    lastResult   \* how it ended: "running", "ok" or the exception raised

vars == <<attrs, model, model_list, glLists, viewport, rendered, after,
          mainloop, pc, src, cur, ci, cj, lastOp, lastResult>>

----------------------------------------------------------------------------
\* Bounds

MaxSeed == 2        \* distinct file contents per length
MaxTriangles == 2   \* largest declared triangle count
MaxLists == 2       \* display lists generated in one run
MaxSize == 2        \* largest width / height of a resize event
MaxAfter == 2       \* pending timer callbacks

----------------------------------------------------------------------------
\* Files and the mesh reader

\* A vertex stands for one triple of floats of the file; the number names
\* the file content (s), the record (i) and the position in the record (k).
Vertex(s, i, k) == 100 * s + 10 * i + k

Facet(s, i) == <<Vertex(s, i, 1), Vertex(s, i, 2), Vertex(s, i, 3)>>

NoFile == [exists |-> FALSE, count |-> 0, records |-> <<>>]

\* A binary STL file: the declared triangle count and the records present.
Files ==
    {NoFile} \cup
    UNION { { [exists |-> TRUE, count |-> n,
               records |-> [i \in 1..p |-> Facet(s, i)]] : p \in 0..n } :
            s \in 1..MaxSeed, n \in 0..MaxTriangles }

Valid(f) == f.exists /\ Len(f.records) = f.count

Truncated(f) == f.exists /\ Len(f.records) < f.count

Errors == {"IOError", "FormatError", "AttributeError"}

Raised(e) == [raised |-> TRUE, error |-> e, vectors |-> <<>>]

Returned(m) == [raised |-> FALSE, error |-> "", vectors |-> m]

\* mesh.Mesh.from_file(file_path): the outcomes of the call.  A missing file
\* raises.  A complete file gives its records.  load_model adds no check of
\* its own, so on a short file the outcome is the reader's: it returns the
\* records that are present, or it raises when it validates the size.
from_file(f) ==
    IF ~f.exists THEN {Raised("IOError")}
    ELSE IF Valid(f) THEN {Returned(f.records)}
    ELSE {Returned(f.records), Raised("FormatError")}

----------------------------------------------------------------------------
\* Construction

InitAttrs == {"root", "opengl_frame", "opengl_canvas", "control_panel",
              "load_model_button", "context"}

Init ==
    /\ attrs = InitAttrs
    /\ model = <<>>
    /\ model_list = 0
    /\ glLists = <<>>
    /\ viewport = <<0, 0, 0, 0>>
    /\ rendered = <<>>
    /\ after = 0
    /\ mainloop = FALSE
    /\ pc = "idle"
    /\ src = NoFile
    /\ cur = 0
    /\ ci = 0
    /\ cj = 0
    /\ lastOp = "__init__"
    /\ lastResult = "ok"

----------------------------------------------------------------------------
\* on_resize

on_resize(w, h) ==
    /\ pc = "idle"
    /\ viewport' = <<0, 0, w, h>>
    /\ lastOp' = "on_resize"
    /\ lastResult' = "ok"
    /\ UNCHANGED <<attrs, model, model_list, glLists, rendered, after,
                   mainloop, pc, src, cur, ci, cj>>

----------------------------------------------------------------------------
\* load_model

\* file_path is a non-empty literal, so "if not file_path: return" falls through.
FilePathChosen == TRUE

\* load_model that drops the displayed list when it starts a new load.
load_model_call_resets ==
    /\ pc = "idle"
    /\ Len(glLists) < MaxLists
    /\ FilePathChosen
    /\ \E f \in Files : src' = f
    /\ pc' = "parse"
    /\ lastOp' = "load_model"
    /\ lastResult' = "running"
    /\ attrs' = attrs \ {"model_list"}
    /\ model_list' = 0
    /\ UNCHANGED <<model, glLists, viewport, rendered, after, mainloop,
                   cur, ci, cj>>

\* The button command starts load_model; the file at file_path is whatever
\* is on disk at that moment.
load_model_call ==
    /\ pc = "idle"
    /\ Len(glLists) < MaxLists
    /\ FilePathChosen
    /\ \E f \in Files : src' = f
    /\ pc' = "parse"
    /\ lastOp' = "load_model"
    /\ lastResult' = "running"
    /\ UNCHANGED <<attrs, model, model_list, glLists, viewport, rendered,
                   after, mainloop, cur, ci, cj>>

\* A failure handler that clears the displayed list.
parse_raised_clears(e) ==
    /\ pc' = "idle"
    /\ lastResult' = e
    /\ attrs' = attrs \ {"model", "model_list"}
    /\ model' = <<>>
    /\ model_list' = 0
    /\ UNCHANGED <<glLists, viewport, rendered, after, mainloop, src, cur,
                   ci, cj, lastOp>>

\* from_file raised: the exception leaves load_model, nothing is assigned.
parse_raised(e) ==
    /\ pc' = "idle"
    /\ lastResult' = e
    /\ UNCHANGED <<attrs, model, model_list, glLists, viewport, rendered,
                   after, mainloop, src, cur, ci, cj, lastOp>>

\* self.model = mesh.Mesh.from_file(file_path)
load_model_parse ==
    /\ pc = "parse"
    /\ \E out \in from_file(src) :
         IF out.raised
         THEN parse_raised(out.error)
         ELSE /\ model' = out.vectors
              /\ attrs' = attrs \cup {"model"}
              /\ pc' = "newlist"
              /\ UNCHANGED <<model_list, glLists, viewport, rendered, after,
                             mainloop, src, cur, ci, cj, lastOp, lastResult>>

\* create_model_list that publishes the list name as soon as it is generated.
create_model_list_new_early ==
    /\ pc = "newlist"
    /\ cur' = Len(glLists) + 1
    /\ glLists' = Append(glLists, [done |-> FALSE, cmds |-> <<>>])
    /\ ci' = 1
    /\ cj' = 1
    /\ pc' = "vertex"
    /\ model_list' = Len(glLists) + 1
    /\ attrs' = attrs \cup {"model_list"}
    /\ UNCHANGED <<model, viewport, rendered, after, mainloop, src, lastOp,
                   lastResult>>

\* create_model_list: glGenLists(1); glNewList(.., GL_COMPILE); glBegin
create_model_list_new ==
    /\ pc = "newlist"
    /\ cur' = Len(glLists) + 1
    /\ glLists' = Append(glLists, [done |-> FALSE, cmds |-> <<>>])
    /\ ci' = 1
    /\ cj' = 1
    /\ pc' = "vertex"
    /\ UNCHANGED <<attrs, model, model_list, viewport, rendered, after,
                   mainloop, src, lastOp, lastResult>>

\* An inner loop that stops one vertex short.
NextVertex_short(i, j) == IF j >= 2 THEN <<i + 1, 1>> ELSE <<i, j + 1>>

\* The position after vertex j of facet i.
NextVertex(i, j) == IF j = 3 THEN <<i + 1, 1>> ELSE <<i, j + 1>>

\* glVertex3fv(vertex), one iteration of the inner loop
create_model_list_vertex ==
    /\ pc = "vertex"
    /\ ci <= Len(model)
    /\ glLists' = [glLists EXCEPT ![cur].cmds = Append(@, model[ci][cj])]
    /\ ci' = NextVertex(ci, cj)[1]
    /\ cj' = NextVertex(ci, cj)[2]
    /\ UNCHANGED <<attrs, model, model_list, viewport, rendered, after,
                   mainloop, pc, src, cur, lastOp, lastResult>>

\* glEnd(); glEndList(); return model_list
create_model_list_end ==
    /\ pc = "vertex"
    /\ ci > Len(model)
    /\ glLists' = [glLists EXCEPT ![cur].done = TRUE]
    /\ pc' = "assign"
    /\ UNCHANGED <<attrs, model, model_list, viewport, rendered, after,
                   mainloop, src, cur, ci, cj, lastOp, lastResult>>

\* self.model_list = <the returned list>
load_model_assign ==
    /\ pc = "assign"
    /\ model_list' = cur
    /\ attrs' = attrs \cup {"model_list"}
    /\ pc' = "idle"
    /\ lastResult' = "ok"
    /\ UNCHANGED <<model, glLists, viewport, rendered, after, mainloop,
                   src, cur, ci, cj, lastOp>>

----------------------------------------------------------------------------
\* draw, update, run

\* How draw ends: it reads self.rotation_x, then self.rotation_y.
DrawResult ==
    IF {"rotation_x", "rotation_y"} \subseteq attrs THEN "ok" ELSE "AttributeError"

\* The back buffer after draw: glClear, then glCallList if draw gets there.
DrawRendered ==
    IF DrawResult = "ok" /\ "model_list" \in attrs
    THEN glLists[model_list].cmds
    ELSE <<>>

draw ==
    /\ pc = "idle"
    /\ rendered' = DrawRendered
    /\ lastOp' = "draw"
    /\ lastResult' = DrawResult
    /\ UNCHANGED <<attrs, model, model_list, glLists, viewport, after,
                   mainloop, pc, src, cur, ci, cj>>

\* self.draw(); self.root.after(100, self.update)
update ==
    /\ pc = "idle"
    /\ after < MaxAfter
    /\ rendered' = DrawRendered
    /\ after' = IF DrawResult = "ok" THEN after + 1 ELSE after
    /\ lastOp' = "update"
    /\ lastResult' = DrawResult
    /\ UNCHANGED <<attrs, model, model_list, glLists, viewport, mainloop,
                   pc, src, cur, ci, cj>>

\* self.update(); self.root.mainloop()
run ==
    /\ pc = "idle"
    /\ after < MaxAfter
    /\ rendered' = DrawRendered
    /\ after' = IF DrawResult = "ok" THEN after + 1 ELSE after
    /\ mainloop' = (mainloop \/ DrawResult = "ok")
    /\ lastOp' = "run"
    /\ lastResult' = DrawResult
    /\ UNCHANGED <<attrs, model, model_list, glLists, viewport, pc, src,
                   cur, ci, cj>>

----------------------------------------------------------------------------

Next ==
    \/ \E w \in 1..MaxSize, h \in 1..MaxSize : on_resize(w, h)
    \/ load_model_call
    \/ load_model_parse
    \/ create_model_list_new
    \/ create_model_list_vertex
    \/ create_model_list_end
    \/ load_model_assign
    \/ draw
    \/ update
    \/ run

Spec == Init /\ [][Next]_vars

----------------------------------------------------------------------------
\* Properties

Loaded == "model_list" \in attrs

\* cmds is the vertices of mesh m: facets in order, three vertices each, in order.
InOrder(cmds, m) ==
    /\ Len(cmds) = 3 * Len(m)
    /\ \A i \in 1..Len(m) : \A j \in 1..3 : cmds[3 * (i - 1) + j] = m[i][j]

C1_State ==
    Loaded =>
        /\ model_list \in 1..Len(glLists)
        /\ glLists[model_list].done
        /\ (pc \in {"idle", "parse"} => InOrder(glLists[model_list].cmds, model))

C1_Step ==
    /\ (Loaded /\ Loaded' /\ model_list' = model_list)
           => glLists'[model_list] = glLists[model_list]
    /\ (Loaded' /\ (~Loaded \/ model_list' # model_list))
           => /\ model_list' = cur
              /\ model_list' \notin (IF Loaded THEN {model_list} ELSE {})
              /\ glLists' = glLists

C2_Step ==
    /\ ((pc = "idle" /\ pc' = "parse") \/ (pc = "parse" /\ pc' = "idle"))
           => /\ Loaded' = Loaded
              /\ model_list' = model_list
              /\ glLists' = glLists
              /\ rendered' = rendered
    /\ (pc = "parse" /\ pc' = "idle")
           => /\ lastOp' = "load_model"
              /\ lastResult' \in Errors

\* C2: a load attempt whose parse raises leaves self.model_list and every
\* display list as they were before the attempt, and ends with the
\* exception as its result.
C2_FailedLoadKeepsBatch == [][C2_Step]_vars

\* A load has failed while a batch was displayed.
C2_Witness ==
    /\ Loaded
    /\ pc = "idle"
    /\ lastOp = "load_model"
    /\ lastResult \in Errors
    /\ glLists[model_list].cmds # <<>>

\* C3: a draw on a manager with no successful load ends without error and
\* renders nothing.
C3_FreshDrawOk ==
    (lastOp = "draw" /\ ~Loaded) => (lastResult = "ok" /\ rendered = <<>>)

\* C4: both rotation fields are defined in every state.
C4_RotationDefined == {"rotation_x", "rotation_y"} \subseteq attrs

C5_Step ==
    /\ Loaded => Loaded'
    /\ (~Loaded /\ Loaded')
           => (pc = "assign" /\ lastOp' = "load_model" /\ lastResult' = "ok")

\* C5: the manager starts Empty, Empty renders nothing, it becomes Loaded
\* only when a load_model completes successfully, and Loaded is never left.
C5_TwoStates ==
    /\ ~Loaded
    /\ [](~Loaded => rendered = <<>>)
    /\ [][C5_Step]_vars

\* Loaded survived a later failed load and a draw.
C5_Witness ==
    /\ Loaded
    /\ src = NoFile
    /\ lastOp = "draw"

\* C6: after a successful load of a valid file with declared count n the
\* model has exactly n facets equal to the file's records and the compiled
\* list holds exactly 3*n vertices, in file order.
C6_ExactBatch ==
    (lastOp = "load_model" /\ lastResult = "ok" /\ Valid(src)) =>
        /\ Len(model) = src.count
        /\ \A i \in 1..Len(model) : Len(model[i]) = 3 /\ model[i] = src.records[i]
        /\ glLists[model_list].done
        /\ InOrder(glLists[model_list].cmds, src.records)

\* A valid file of at least two triangles has been loaded.
C6_Witness ==
    /\ lastOp = "load_model"
    /\ lastResult = "ok"
    /\ Valid(src)
    /\ src.count >= 2
    /\ Len(glLists[model_list].cmds) = 3 * src.count

\* C7: a load of a file shorter than its declared count ends with an error
\* and produces no batch.
C7_TruncatedFails ==
    (lastOp = "load_model" /\ Truncated(src) /\ pc # "parse")
        => lastResult \in Errors

\* C8: when no method is executing, at most one display list is allocated.
C8_PreviousReleased == (pc = "idle") => Len(glLists) <= 1

\* C9: every execution of update leaves update scheduled again.
C9_UpdateReschedules == (lastOp \in {"update", "run"}) => after > 0

\* C10: a draw tick can be taken in every state in which a parse is in
\* progress.
C10_DrawDuringParse == (pc = "parse") => ENABLED update

====
